---- MODULE Spec2Model ----
(***************************************************************************)
(* Model of src/src/document.py, the python implementation of the SPDX     *)
(* document model.                                                         *)
(*                                                                         *)
(* The program is a library of classes.  Its state is the object graph a   *)
(* caller has built: the instances (heap), the list objects (lists: the    *)
(* default-argument lists created when the def statements run, and the     *)
(* lists callers pass), and the outcome of the last call (ret).            *)
(***************************************************************************)
EXTENDS Integers, Sequences, FiniteSets, TLC

VARIABLES heap, lists, ret

vars == <<heap, lists, ret>>

(***************************************************************************)
(* Bounds of the model.                                                    *)
(***************************************************************************)
\* instances a caller builds
MaxObjs == 4
\* length up to which a caller appends to a list object
MaxLen == 2

(***************************************************************************)
(* Python values.  Strings and integers are themselves.  A reference is a  *)
(* record: to a class object, to an enumeration member, to an instance on  *)
(* the heap, or to a list object.                                          *)
(***************************************************************************)
ClassObj(c) == [kind |-> "class", name |-> c, addr |-> 0]

EnumMember(m) == [kind |-> "enum", name |-> m, addr |-> 0]

Inst(a) == [kind |-> "inst", name |-> "", addr |-> a]

ListObj(l) == [kind |-> "list", name |-> "", addr |-> l]

NoArgs == <<>>

Range(s) == {s[i] : i \in DOMAIN s}

\* Python binds a call's keyword arguments over the parameters' defaults.
Bind(defaults, kw) ==
    [p \in DOMAIN defaults |-> IF p \in DOMAIN kw THEN kw[p] ELSE defaults[p]]

(***************************************************************************)
(* class IntegrityMethod(ABC) and the abc machinery.                       *)
(***************************************************************************)
IntegrityMethod_abstractmethods == {"generate", "verify"}

\* Subclasses a caller may derive from IntegrityMethod, by what they define.
VariantDefines ==
    [GenerateOnly |-> {"generate"},
     VerifyOnly   |-> {"verify"},
     Neither      |-> {},
     Complete     |-> {"generate", "verify"}]

Variants == DOMAIN VariantDefines

Hash_defines == {"__init__", "generate", "verify"}

AbstractMethodsNone(cls) == {}

\* cls.__abstractmethods__: the abstract methods a class has not overridden.
AbstractMethods(cls) ==
    IF cls = "IntegrityMethod" THEN IntegrityMethod_abstractmethods
    ELSE IF cls = "Hash" THEN IntegrityMethod_abstractmethods \ Hash_defines
    ELSE IF cls \in Variants THEN IntegrityMethod_abstractmethods \ VariantDefines[cls]
    ELSE {}

(***************************************************************************)
(* class Hash(IntegrityMethod)                                             *)
(***************************************************************************)
Hash_defaults == [algo |-> "", value |-> ""]

Hash__init__(a) == [HashAlgorithm |-> a.algo, Value |-> a.value]

Hash_generate_digest(self) == self.Value

Hash_generate(self) == ""

Hash_verify_compare(self, value) == IF value = self.Value THEN value ELSE ""

Hash_verify(self, value) == value

(***************************************************************************)
(* class ExternalReference                                                 *)
(***************************************************************************)
ExternalReference_defaults ==
    [category |-> "", reftype |-> "", locator |-> "", comment |-> ""]

ExternalReference__init__swapped(a) ==
    [Category |-> a.category, Type |-> a.locator,
     Locator |-> a.reftype, Comment |-> a.comment]

ExternalReference__init__(a) ==
    [Category |-> a.category, Type |-> a.reftype,
     Locator |-> a.locator, Comment |-> a.comment]

(***************************************************************************)
(* class SpdxDocumentReference                                             *)
(***************************************************************************)
SpdxDocumentReference_defaults ==
    [document_ref |-> "", locator |-> "",
     verification |-> ClassObj("IntegrityMethod")]

SpdxDocumentReference__init__(a) ==
    [DocumentRef |-> a.document_ref, Locator |-> a.locator,
     VerifiedWith |-> a.verification]

(***************************************************************************)
(* class SpdxElement                                                       *)
(***************************************************************************)
SpdxElement_defaults ==
    [name |-> "", summary |-> "", description |-> "", comment |-> "",
     verification |-> ClassObj("IntegrityMethod")]

SpdxElement__init__(name, summary, description, comment, verification) ==
    [SPDXID |-> "", Name |-> name, Summary |-> summary,
     Description |-> description, Comment |-> comment,
     VerifiedWith |-> verification]

(***************************************************************************)
(* class RelationshipType(Enum)                                            *)
(***************************************************************************)
RelationshipType ==
    {"DESCRIBES", "DESCRIBED_BY", "CONTAINS", "CONTAINED_BY", "DEPENDS_ON",
     "DEPENDENCY_OF", "DEPENDENCY_MANIFEST_OF", "BUILD_DEPENDENCY_OF",
     "DEV_DEPENDENCY_OF", "OPTIONAL_DEPENDENCY_OF", "PROVIDED_DEPENDENCY_OF",
     "TEST_DEPENDENCY_OF", "RUNTIME_DEPENDENCY_OF", "EXAMPLE_OF", "GENERATES",
     "GENERATED_FROM"}

(***************************************************************************)
(* class Relationship(SpdxElement)                                         *)
(***************************************************************************)
Relationship_defaults ==
    SpdxElement_defaults @@
    [relationship_type |-> ClassObj("RelationshipType"),
     from_element |-> ClassObj("SpdxElement"),
     to_element |-> ClassObj("SpdxElement")]

Relationship__init__guarded(a) ==
    SpdxElement__init__(a.name, a.summary, a.description, a.comment,
                        a.verification) @@
    [RelationshipType |-> a.relationship_type,
     From |-> a.from_element,
     To |-> IF a.to_element = a.from_element
            THEN ClassObj("SpdxElement") ELSE a.to_element,
     VerfiedWith |-> a.verification]

Relationship__init__(a) ==
    SpdxElement__init__(a.name, a.summary, a.description, a.comment,
                        a.verification) @@
    [RelationshipType |-> a.relationship_type,
     From |-> a.from_element,
     To |-> a.to_element,
     VerfiedWith |-> a.verification]

(***************************************************************************)
(* class Identity(SpdxElement)                                             *)
(***************************************************************************)
Identity_defaults == SpdxElement_defaults @@ [email |-> ""]

Identity__init__(a) ==
    SpdxElement__init__(a.name, a.summary, a.description, a.comment,
                        a.verification) @@
    [Email |-> a.email]

(***************************************************************************)
(* The list objects made when the def statements run: one per list-valued  *)
(* default argument, kept by its function for every later call.            *)
(***************************************************************************)
Artifact_default_external_references == 1

Package_default_external_references == 2

File_default_external_references == 3

Snippet_default_external_references == 4

SpdxDocument_default_external_document_references == 5

SpdxDocument_default_profiles == 6

DefaultLists ==
    << <<ClassObj("ExternalReference")>>,
       <<ClassObj("ExternalReference")>>,
       <<ClassObj("ExternalReference")>>,
       <<ClassObj("ExternalReference")>>,
       <<ClassObj("SpdxDocumentReference")>>,
       <<>> >>

(***************************************************************************)
(* class SpdxDocument(SpdxElement)                                         *)
(***************************************************************************)
\* Both attributes are the float 3.0, written here as the integer it equals.
SPDXVersion == 3

DataLicense == 3

SpdxDocument_defaults ==
    SpdxElement_defaults @@
    [namespace |-> "", created |-> "", creator |-> ClassObj("Identity"),
     external_document_references |->
         ListObj(SpdxDocument_default_external_document_references),
     profiles |-> ListObj(SpdxDocument_default_profiles)]

SpdxDocument__init__settable(a) ==
    SpdxElement__init__(a.name, a.summary, a.description, a.comment,
                        a.verification) @@
    [SPDXVersion |-> SPDXVersion,
     DataLicense |-> IF a.namespace = "" THEN DataLicense ELSE 0,
     Namespace |-> a.namespace,
     Created |-> a.created,
     Creator |-> a.creator,
     ExternalDocumentReferences |-> a.external_document_references,
     Profiles |-> a.profiles]

SpdxDocument__init__(a) ==
    SpdxElement__init__(a.name, a.summary, a.description, a.comment,
                        a.verification) @@
    [SPDXVersion |-> SPDXVersion,
     DataLicense |-> DataLicense,
     Namespace |-> a.namespace,
     Created |-> a.created,
     Creator |-> a.creator,
     ExternalDocumentReferences |-> a.external_document_references,
     Profiles |-> a.profiles]

(***************************************************************************)
(* class Artifact(SpdxElement)                                             *)
(***************************************************************************)
Artifact_defaults ==
    SpdxElement_defaults @@
    [artifact_url |-> "", supplier |-> ClassObj("Identity"),
     originator |-> ClassObj("Identity"),
     external_references |-> ListObj(Artifact_default_external_references)]

Artifact__init__(name, summary, description, comment, verification, artifact_url, supplier, originator, external_references) ==
    SpdxElement__init__(name, summary, description, comment, verification) @@
    [ArtifactUrl |-> artifact_url,
     Supplier |-> supplier,
     Originator |-> originator,
     ExternalReferences |-> external_references]

(***************************************************************************)
(* class Package(Artifact)                                                 *)
(***************************************************************************)
Package_defaults ==
    SpdxElement_defaults @@
    [artifact_url |-> "", supplier |-> ClassObj("Identity"),
     originator |-> ClassObj("Identity"),
     external_references |-> ListObj(Package_default_external_references),
     version |-> ""]

Package__init__(a) ==
    Artifact__init__(a.name, a.summary, a.description, a.comment,
                     a.verification, a.artifact_url, a.supplier,
                     a.originator, a.external_references) @@
    [Version |-> a.version]

(***************************************************************************)
(* class File(Artifact)                                                    *)
(***************************************************************************)
File_defaults ==
    SpdxElement_defaults @@
    [artifact_url |-> "", supplier |-> ClassObj("Identity"),
     originator |-> ClassObj("Identity"),
     external_references |-> ListObj(File_default_external_references),
     file_type |-> ""]

File__init__(a) ==
    Artifact__init__(a.name, a.summary, a.description, a.comment,
                     a.verification, a.artifact_url, a.supplier,
                     a.originator, a.external_references) @@
    [FileType |-> a.file_type]

(***************************************************************************)
(* class Snippet(Artifact)                                                 *)
(***************************************************************************)
Snippet_defaults ==
    SpdxElement_defaults @@
    [artifact_url |-> "", supplier |-> ClassObj("Identity"),
     originator |-> ClassObj("Identity"),
     external_references |-> ListObj(Snippet_default_external_references),
     byte_range |-> 0, line_range |-> 0]

Snippet__init__(a) ==
    Artifact__init__(a.name, a.summary, a.description, a.comment,
                     a.verification, a.artifact_url, a.supplier,
                     a.originator, a.external_references) @@
    [ByteRange |-> a.byte_range, LineRange |-> a.line_range]

(***************************************************************************)
(* The arguments callers pass.  A call is written in one of two styles:    *)
(* no argument at all (0), or every string, integer and reference argument *)
(* (1).  Neighbouring string parameters get different values.  A reference *)
(* is to an instance already built, where the class has one: the first     *)
(* built or the last built.  A list argument is left out, or is a literal: *)
(* [] or the first instances built, two at most.                           *)
(***************************************************************************)
Strs == <<"x", "y">>

Styles == {0, 1}

KwStr(P, style) ==
    IF style = 0 THEN NoArgs
    ELSE [p \in Range(P) |->
             Strs[((CHOOSE i \in DOMAIN P : P[i] = p) % 2) + 1]]

InstancesOf(classes) == {a \in DOMAIN heap : heap[a].cls \in classes}

Min(S) == CHOOSE a \in S : \A b \in S : a <= b

Max(S) == CHOOSE a \in S : \A b \in S : a >= b

\* the instance a reference argument is, 0 for an omitted argument
First(style, S) == IF style = 0 \/ S = {} THEN 0 ELSE Min(S)

Last(style, S) == IF style = 0 \/ S = {} THEN 0 ELSE Max(S)

KwRef(p, a) == IF a = 0 THEN NoArgs ELSE [q \in {p} |-> Inst(a)]

ElementClasses ==
    {"SpdxElement", "Relationship", "Identity", "SpdxDocument", "Artifact",
     "Package", "File", "Snippet"}

ArtifactClasses == {"Artifact", "Package", "File", "Snippet"}

ElementParams == <<"name", "summary", "description", "comment">>

\* The list arguments a caller writes, as <<given, item, ...>>: omitted
\* (<<0>>), [] (<<1>>), or a literal of the first two of the items.
Literal(items) ==
    IF items = {} THEN <<1>>
    ELSE IF Cardinality(items) = 1 THEN <<1, Min(items)>>
    ELSE <<1, Min(items), Min(items \ {Min(items)})>>

ListArgs(style, items) ==
    IF style = 0 THEN {<<0>>} ELSE {<<0>>, <<1>>, Literal(items)}

KwLit(p, lit, l) == IF lit[1] = 0 THEN NoArgs ELSE [q \in {p} |-> ListObj(l)]

RefItems(lit) == [k \in 1..(Len(lit) - 1) |-> Inst(lit[k + 1])]

ProfileNames == <<"core", "security">>

ProfileItems(lit) == [k \in 1..(Len(lit) - 1) |-> ProfileNames[lit[k + 1]]]

\* the list objects the call's literals allocate
Allocated(lit, items) == IF lit[1] = 0 THEN <<>> ELSE << items >>

Lits(p, lit, items) == IF lit[1] = 0 THEN NoArgs ELSE [q \in {p} |-> items]

\* Callers build a graph leaf-first: an instance refers only to instances
\* built before it, so the classes are visited in this order.
BuildOrder ==
    <<{"IntegrityMethod", "GenerateOnly", "VerifyOnly", "Neither", "Complete",
       "Hash"},
      {"ExternalReference"}, {"SpdxDocumentReference"}, {"Identity"},
      {"SpdxElement"}, {"Artifact"}, {"Package"}, {"File"}, {"Snippet"},
      {"SpdxDocument"}, {"Relationship"}>>

Rank(cls) == CHOOSE i \in DOMAIN BuildOrder : cls \in BuildOrder[i]

CanBuild(cls) ==
    /\ Len(heap) < MaxObjs
    /\ Len(heap) > 0 => Rank(heap[Len(heap)].cls) <= Rank(cls)

(***************************************************************************)
(* State: what the last call was and what it returned or raised.           *)
(***************************************************************************)
Outcome(op, cls, kw, lits, self, arg, result, raised) ==
    [op |-> op, cls |-> cls, kw |-> kw, lits |-> lits, self |-> self,
     arg |-> arg, result |-> result, raised |-> raised]

Init ==
    /\ heap = <<>>
    /\ lists = DefaultLists
    /\ ret = Outcome("import", "", NoArgs, NoArgs, 0, "", "", FALSE)

\* cls(**kw): abc refuses a class with abstract methods left (TypeError);
\* otherwise the instance is made and __init__ sets its attributes.
Instantiate(cls, kw, lits, newlists, attrs) ==
    IF AbstractMethods(cls) # {}
    THEN /\ UNCHANGED <<heap, lists>>
         /\ ret' = Outcome("new", cls, kw, lits, 0, "", "", TRUE)
    ELSE /\ heap' = Append(heap, [cls |-> cls] @@ attrs)
         /\ lists' = newlists
         /\ ret' = Outcome("new", cls, kw, lits, Len(heap) + 1, "", "", FALSE)

\* IntegrityMethod(), or a caller's subclass of it
NewIntegrityMethod ==
    \E cls \in {"IntegrityMethod"} \cup Variants :
        /\ CanBuild(cls)
        /\ Instantiate(cls, NoArgs, NoArgs, lists, NoArgs)

NewHash ==
    /\ CanBuild("Hash")
    /\ \E st \in Styles :
        LET kw == KwStr(<<"algo", "value">>, st)
        IN  Instantiate("Hash", kw, NoArgs, lists,
                        Hash__init__(Bind(Hash_defaults, kw)))

\* h.generate()
HashGenerate ==
    \E a \in InstancesOf({"Hash"}) :
        /\ ret' = Outcome("generate", "Hash", NoArgs, NoArgs, a, "",
                          Hash_generate(heap[a]), FALSE)
        /\ UNCHANGED <<heap, lists>>

\* h.verify(value)
HashVerify ==
    \E a \in InstancesOf({"Hash"}), value \in {"", "x", "y"} :
        /\ ret' = Outcome("verify", "Hash", NoArgs, NoArgs, a, value,
                          Hash_verify(heap[a], value), FALSE)
        /\ UNCHANGED <<heap, lists>>

NewExternalReference ==
    /\ CanBuild("ExternalReference")
    /\ \E st \in Styles :
        LET kw == KwStr(<<"category", "reftype", "locator", "comment">>, st)
        IN  Instantiate("ExternalReference", kw, NoArgs, lists,
                ExternalReference__init__(
                    Bind(ExternalReference_defaults, kw)))

NewSpdxDocumentReference ==
    /\ CanBuild("SpdxDocumentReference")
    /\ \E st \in Styles :
        LET v == Last(st, InstancesOf({"Hash"}))
            kw == KwStr(<<"document_ref", "locator">>, st) @@
                  KwRef("verification", v)
        IN  Instantiate("SpdxDocumentReference", kw, NoArgs, lists,
                SpdxDocumentReference__init__(
                    Bind(SpdxDocumentReference_defaults, kw)))

NewSpdxElement ==
    /\ CanBuild("SpdxElement")
    /\ \E st \in Styles :
        LET v == Last(st, InstancesOf({"Hash"}))
            kw == KwStr(ElementParams, st) @@ KwRef("verification", v)
            a == Bind(SpdxElement_defaults, kw)
        IN  Instantiate("SpdxElement", kw, NoArgs, lists,
                SpdxElement__init__(a.name, a.summary, a.description,
                                    a.comment, a.verification))

NewIdentity ==
    /\ CanBuild("Identity")
    /\ \E st \in Styles :
        LET v == Last(st, InstancesOf({"Hash"}))
            kw == KwStr(ElementParams \o <<"email">>, st) @@
                  KwRef("verification", v)
        IN  Instantiate("Identity", kw, NoArgs, lists,
                Identity__init__(Bind(Identity_defaults, kw)))

\* The relationship types callers pass.
PassedTypes == {"DESCRIBES", "GENERATED_FROM"}

KwType(style, t) ==
    IF style = 0 THEN NoArgs ELSE [relationship_type |-> EnumMember(t)]

\* from_element is the first element built or, as to_element, the last.
NewRelationship ==
    /\ CanBuild("Relationship")
    /\ \E st \in Styles, t \in PassedTypes :
       \E f \in {First(st, InstancesOf(ElementClasses)),
                 Last(st, InstancesOf(ElementClasses))} :
        LET v == Last(st, InstancesOf({"Hash"}))
            o == Last(st, InstancesOf(ElementClasses))
            kw == KwStr(ElementParams, st) @@ KwRef("verification", v) @@
                  KwType(st, t) @@
                  KwRef("from_element", f) @@ KwRef("to_element", o)
        IN  Instantiate("Relationship", kw, NoArgs, lists,
                Relationship__init__(Bind(Relationship_defaults, kw)))

NewSpdxDocument ==
    /\ CanBuild("SpdxDocument")
    /\ \E st \in Styles :
       \E le \in ListArgs(st, InstancesOf({"SpdxDocumentReference"})) :
        LET v == Last(st, InstancesOf({"Hash"}))
            c == Last(st, InstancesOf({"Identity"}))
            lp == IF le[1] = 0 THEN <<0>> ELSE <<1, 1, 2>>
            first == Len(lists) + 1
            second == first + le[1]
            kw == KwStr(ElementParams \o <<"namespace", "created">>, st) @@
                  KwRef("verification", v) @@ KwRef("creator", c) @@
                  KwLit("external_document_references", le, first) @@
                  KwLit("profiles", lp, second)
        IN  Instantiate("SpdxDocument", kw,
                Lits("external_document_references", le, RefItems(le)) @@
                Lits("profiles", lp, ProfileItems(lp)),
                lists \o Allocated(le, RefItems(le)) \o
                         Allocated(lp, ProfileItems(lp)),
                SpdxDocument__init__(Bind(SpdxDocument_defaults, kw)))

\* The arguments of every artifact class but the strings and the class's own.
KwArtifact(v, s, o, le) ==
    KwRef("verification", v) @@ KwRef("supplier", s) @@
    KwRef("originator", o) @@ KwLit("external_references", le, Len(lists) + 1)

NewArtifact ==
    /\ CanBuild("Artifact")
    /\ \E st \in Styles :
       \E le \in ListArgs(st, InstancesOf({"ExternalReference"})) :
        LET v == Last(st, InstancesOf({"Hash"}))
            s == Last(st, InstancesOf({"Identity"}))
            o == First(st, InstancesOf({"Identity"}))
            kw == KwStr(ElementParams \o <<"artifact_url">>, st) @@
                  KwArtifact(v, s, o, le)
            a == Bind(Artifact_defaults, kw)
        IN  Instantiate("Artifact", kw,
                Lits("external_references", le, RefItems(le)),
                lists \o Allocated(le, RefItems(le)),
                Artifact__init__(a.name, a.summary, a.description, a.comment,
                                 a.verification, a.artifact_url, a.supplier,
                                 a.originator, a.external_references))

NewPackage ==
    /\ CanBuild("Package")
    /\ \E st \in Styles :
       \E le \in ListArgs(st, InstancesOf({"ExternalReference"})) :
        LET v == Last(st, InstancesOf({"Hash"}))
            s == Last(st, InstancesOf({"Identity"}))
            o == First(st, InstancesOf({"Identity"}))
            kw == KwStr(ElementParams \o <<"artifact_url", "version">>, st) @@
                  KwArtifact(v, s, o, le)
        IN  Instantiate("Package", kw,
                Lits("external_references", le, RefItems(le)),
                lists \o Allocated(le, RefItems(le)),
                Package__init__(Bind(Package_defaults, kw)))

NewFile ==
    /\ CanBuild("File")
    /\ \E st \in Styles :
       \E le \in ListArgs(st, InstancesOf({"ExternalReference"})) :
        LET v == Last(st, InstancesOf({"Hash"}))
            s == Last(st, InstancesOf({"Identity"}))
            o == First(st, InstancesOf({"Identity"}))
            kw == KwStr(ElementParams \o <<"artifact_url", "file_type">>, st) @@
                  KwArtifact(v, s, o, le)
        IN  Instantiate("File", kw,
                Lits("external_references", le, RefItems(le)),
                lists \o Allocated(le, RefItems(le)),
                File__init__(Bind(File_defaults, kw)))

\* byte_range and line_range, when passed
KwRanges(style) ==
    IF style = 0 THEN NoArgs ELSE [byte_range |-> 1, line_range |-> 2]

NewSnippet ==
    /\ CanBuild("Snippet")
    /\ \E st \in Styles :
       \E le \in ListArgs(st, InstancesOf({"ExternalReference"})) :
        LET v == Last(st, InstancesOf({"Hash"}))
            s == Last(st, InstancesOf({"Identity"}))
            o == First(st, InstancesOf({"Identity"}))
            kw == KwStr(ElementParams \o <<"artifact_url">>, st) @@
                  KwArtifact(v, s, o, le) @@ KwRanges(st)
        IN  Instantiate("Snippet", kw,
                Lits("external_references", le, RefItems(le)),
                lists \o Allocated(le, RefItems(le)),
                Snippet__init__(Bind(Snippet_defaults, kw)))

(***************************************************************************)
(* A caller adding an item to a container it reads from an instance.       *)
(***************************************************************************)
ListAppend(a, field, item) ==
    LET l == heap[a][field].addr
    IN  /\ Len(lists[l]) < MaxLen
        /\ lists' = [lists EXCEPT ![l] = Append(@, item)]
        /\ ret' = Outcome("append", heap[a].cls, NoArgs, NoArgs, a, field,
                          "", FALSE)
        /\ UNCHANGED heap

\* artifact.ExternalReferences.append(item)
AppendExternalReference ==
    \E a \in InstancesOf(ArtifactClasses),
       item \in InstancesOf({"ExternalReference"}) :
        ListAppend(a, "ExternalReferences", Inst(item))

\* document.ExternalDocumentReferences.append(item)
AppendExternalDocumentReference ==
    \E a \in InstancesOf({"SpdxDocument"}),
       item \in InstancesOf({"SpdxDocumentReference"}) :
        ListAppend(a, "ExternalDocumentReferences", Inst(item))

\* document.Profiles.append(item)
AppendProfile ==
    \E a \in InstancesOf({"SpdxDocument"}) :
        ListAppend(a, "Profiles", ProfileNames[1])

(***************************************************************************)
(* Specifications.                                                         *)
(***************************************************************************)
\* building a document graph
Next ==
    \/ NewHash
    \/ NewExternalReference
    \/ NewSpdxDocumentReference
    \/ NewSpdxElement
    \/ NewIdentity
    \/ NewRelationship
    \/ NewSpdxDocument
    \/ NewArtifact
    \/ NewPackage
    \/ NewFile
    \/ NewSnippet

Spec == Init /\ [][Next]_vars

\* integrity methods: instantiation, generate and verify
NextIntegrity ==
    \/ NewIntegrityMethod
    \/ NewHash
    \/ HashGenerate
    \/ HashVerify

SpecIntegrity == Init /\ [][NextIntegrity]_vars

\* containers: instances and the items added to their lists
NextContainers ==
    \/ NewExternalReference
    \/ NewSpdxDocumentReference
    \/ NewSpdxDocument
    \/ NewArtifact
    \/ NewPackage
    \/ NewFile
    \/ NewSnippet
    \/ AppendExternalReference
    \/ AppendExternalDocumentReference
    \/ AppendProfile

SpecContainers == Init /\ [][NextContainers]_vars

(***************************************************************************)
(* The claims.                                                             *)
(***************************************************************************)
Constructed == ret.op = "new" /\ ~ret.raised

\* the attribute that reads back each constructor parameter
ElementAccessors ==
    [name |-> "Name", summary |-> "Summary", description |-> "Description",
     comment |-> "Comment", verification |-> "VerifiedWith"]

ArtifactAccessors ==
    ElementAccessors @@
    [artifact_url |-> "ArtifactUrl", supplier |-> "Supplier",
     originator |-> "Originator", external_references |-> "ExternalReferences"]

Accessors ==
    [Hash |-> [algo |-> "HashAlgorithm", value |-> "Value"],
     ExternalReference |->
         [category |-> "Category", reftype |-> "Type", locator |-> "Locator",
          comment |-> "Comment"],
     SpdxDocumentReference |->
         [document_ref |-> "DocumentRef", locator |-> "Locator",
          verification |-> "VerifiedWith"],
     SpdxElement |-> ElementAccessors,
     Identity |-> ElementAccessors @@ [email |-> "Email"],
     Relationship |->
         ElementAccessors @@
         [relationship_type |-> "RelationshipType", from_element |-> "From",
          to_element |-> "To"],
     SpdxDocument |->
         ElementAccessors @@
         [namespace |-> "Namespace", created |-> "Created",
          creator |-> "Creator",
          external_document_references |-> "ExternalDocumentReferences",
          profiles |-> "Profiles"],
     Artifact |-> ArtifactAccessors,
     Package |-> ArtifactAccessors @@ [version |-> "Version"],
     File |-> ArtifactAccessors @@ [file_type |-> "FileType"],
     Snippet |->
         ArtifactAccessors @@
         [byte_range |-> "ByteRange", line_range |-> "LineRange"]]

\* every argument the last construction was given reads back unchanged; a
\* list argument reads back as the same list, holding the items passed
ReadsBack ==
    Constructed =>
        \A p \in DOMAIN ret.kw :
            LET value == heap[ret.self][Accessors[ret.cls][p]]
            IN  /\ value = ret.kw[p]
                /\ p \in DOMAIN ret.lits => lists[value.addr] = ret.lits[p]

\* a construction leaves the instances and lists that exist as they are
Intact ==
    /\ \A a \in DOMAIN heap : heap'[a] = heap[a]
    /\ \A l \in DOMAIN lists : lists'[l] = lists[l]

\* C1: every value passed to the constructor of any of the eleven classes
\* reads back unchanged from the instance, and constructing an instance
\* changes none of the instances it refers to: an SpdxDocument given a creator
\* and two external document references exposes exactly those two, each with
\* its DocumentRef, Locator and VerifiedWith as they were.
RoundTrip == [][ReadsBack' /\ (ret'.op = "new" => Intact)]_vars

\* an SpdxDocument was just built with a creator and a list of two different
\* external document references, and exposes both
RoundTripWitness ==
    /\ Constructed
    /\ ret.cls = "SpdxDocument"
    /\ "creator" \in DOMAIN ret.kw
    /\ heap[ret.kw.creator.addr].cls = "Identity"
    /\ "external_document_references" \in DOMAIN ret.lits
    /\ Len(ret.lits.external_document_references) = 2
    /\ LET refs == lists[heap[ret.self].ExternalDocumentReferences.addr]
       IN  /\ Len(refs) = 2
           /\ refs[1] # refs[2]
           /\ heap[refs[1].addr].cls = "SpdxDocumentReference"
           /\ heap[refs[2].addr].cls = "SpdxDocumentReference"
           /\ heap[refs[1].addr].DocumentRef # heap[refs[2].addr].DocumentRef
    /\ heap[ret.self].Creator = ret.kw.creator

ContainerParams ==
    [ExternalReferences |-> "external_references",
     ExternalDocumentReferences |-> "external_document_references",
     Profiles |-> "profiles"]

\* C2: an instance built without a container argument gets a container no
\* other instance has, and adding an item to one instance's container changes
\* no other instance's container.
FreshContainerPerInstance ==
    [][/\ ret'.op = "append" =>
            \A b \in DOMAIN heap \ {ret'.self} :
                ret'.arg \in DOMAIN heap[b] =>
                    lists'[heap[b][ret'.arg].addr] =
                        lists[heap[b][ret'.arg].addr]
       /\ (ret'.op = "new" /\ ~ret'.raised) =>
            \A f \in DOMAIN ContainerParams \cap DOMAIN heap'[ret'.self] :
                ContainerParams[f] \notin DOMAIN ret'.kw =>
                    \A b \in DOMAIN heap :
                        f \in DOMAIN heap[b] =>
                            heap[b][f] # heap'[ret'.self][f]]_vars

\* C3: a Package built with a version and without external_references
\* exposes ExternalReferences as an empty sequence.
PackageDefaultIsEmpty ==
    (/\ Constructed
     /\ ret.cls = "Package"
     /\ "version" \in DOMAIN ret.kw
     /\ "external_references" \notin DOMAIN ret.kw)
    => Len(lists[heap[ret.self].ExternalReferences.addr]) = 0

Uninstantiable == {"IntegrityMethod", "GenerateOnly", "VerifyOnly", "Neither"}

\* C4: IntegrityMethod, and any subclass of it that does not define both
\* generate and verify, cannot be instantiated: the attempt raises and leaves
\* no instance; a class that defines both (Hash) is instantiated.
AbstractNotInstantiable ==
    /\ \A a \in DOMAIN heap : heap[a].cls \notin Uninstantiable
    /\ (ret.op = "new" /\ ret.cls \in Uninstantiable) =>
            ret.raised /\ ret.self = 0
    /\ (ret.op = "new" /\ ret.cls \in {"Hash", "Complete"}) =>
            /\ ~ret.raised
            /\ ret.self = Len(heap)
            /\ heap[ret.self].cls = ret.cls

\* IntegrityMethod() was just refused while a Hash built before exists
AbstractNotInstantiableWitness ==
    /\ ret.op = "new"
    /\ ret.cls = "IntegrityMethod"
    /\ ret.raised
    /\ \E a \in DOMAIN heap : heap[a].cls = "Hash"

\* C5: the RelationshipType of every Relationship is one of the 16 members
\* of the enumeration.
RelationshipTypeIsMember ==
    \A a \in InstancesOf({"Relationship"}) :
        heap[a].RelationshipType \in {EnumMember(m) : m \in RelationshipType}

\* C6: the VerifiedWith of every SpdxDocumentReference is an instance of a
\* concrete IntegrityMethod class, never the IntegrityMethod class itself.
VerifiedWithIsConcrete ==
    \A a \in InstancesOf({"SpdxDocumentReference"}) :
        /\ heap[a].VerifiedWith.kind = "inst"
        /\ heap[heap[a].VerifiedWith.addr].cls \in {"Hash", "Complete"}

\* C7: SPDXVersion and DataLicense of every SpdxDocument are 3.0, whatever
\* arguments it was built with.
VersionAndLicenseFixed ==
    \A a \in InstancesOf({"SpdxDocument"}) :
        heap[a].SPDXVersion = 3 /\ heap[a].DataLicense = 3

\* an SpdxDocument was just built with every string, reference and list
\* argument given
VersionAndLicenseFixedWitness ==
    /\ Constructed
    /\ ret.cls = "SpdxDocument"
    /\ {"name", "namespace", "created", "creator", "profiles",
        "external_document_references"} \subseteq DOMAIN ret.kw
    /\ heap[ret.self].Namespace # ""

\* C8: verify(x) returns x for every Hash and every x, also when x is not the
\* Value the Hash holds.
VerifyPassesThrough == ret.op = "verify" => ret.result = ret.arg

\* verify was just called with a value other than the Value the Hash holds
VerifyPassesThroughWitness ==
    /\ ret.op = "verify"
    /\ ret.arg # ""
    /\ heap[ret.self].Value # ""
    /\ ret.arg # heap[ret.self].Value

\* C9: generate() returns the empty string for every Hash, whatever its
\* algorithm and Value.
GenerateIsEmpty == ret.op = "generate" => ret.result = ""

\* generate was just called on a Hash that holds an algorithm and a Value
GenerateIsEmptyWitness ==
    /\ ret.op = "generate"
    /\ heap[ret.self].Value # ""
    /\ heap[ret.self].HashAlgorithm # ""

ConcreteClasses ==
    {"Hash", "ExternalReference", "SpdxDocumentReference"} \cup ElementClasses

\* C10: constructing a concrete entity never fails, whatever it is given; a
\* Relationship given the same element A as from_element and to_element is
\* built, From and To both being A.
ConstructionNeverFails ==
    (ret.op = "new" /\ ret.cls \in ConcreteClasses) =>
        /\ ~ret.raised
        /\ ret.self = Len(heap)
        /\ heap[ret.self].cls = ret.cls
        /\ (/\ ret.cls = "Relationship"
            /\ "from_element" \in DOMAIN ret.kw
            /\ "to_element" \in DOMAIN ret.kw
            /\ ret.kw.from_element = ret.kw.to_element)
           => /\ heap[ret.self].From = ret.kw.from_element
              /\ heap[ret.self].To = ret.kw.from_element

\* a Relationship was just built from an element to that same element
ConstructionNeverFailsWitness ==
    /\ Constructed
    /\ ret.cls = "Relationship"
    /\ "from_element" \in DOMAIN ret.kw
    /\ "to_element" \in DOMAIN ret.kw
    /\ ret.kw.from_element = ret.kw.to_element
    /\ ret.kw.from_element.kind = "inst"
    /\ heap[ret.self].From = heap[ret.self].To

====
